---- MODULE Spec2Model ----
(***************************************************************************)
(* Chronological playback engine of the Love Map "Time Travel" mode:       *)
(* the TimeTravelMode component (playback state machine, autoplay timer,   *)
(* keyboard adapter), the useAnimatedGlowingPath hook (path / camera       *)
(* animator) and the ambient music module.                                 *)
(*                                                                         *)
(* One action is one event-loop task: a handler or callback runs to        *)
(* completion together with the React commit it causes, i.e. the cleanup   *)
(* functions of every effect whose dependencies changed followed by the    *)
(* bodies of those effects, in the order the component declares them.      *)
(* Timers, animation frames and the map's 'moveend' listeners keep the     *)
(* closure they were created with.                                         *)
(*                                                                         *)
(* The map is the environment: flyTo replaces the running fly, and the     *)
(* map reports 'moveend' when a fly arrives or when setView moves it.      *)
(* The mapInstance prop may be null and may be handed over later.          *)
(* Spec keeps the record list of a session fixed; SpecHost lets the host   *)
(* pass a new array of the same records; FairSpec is Spec with every owed  *)
(* event delivered; AutoSpec is FairSpec with no control used once the     *)
(* journey has started.  The browser may refuse to build an AudioContext:  *)
(* every call of startMusic that has to build one may throw.               *)
(*                                                                         *)
(* The playback handlers update the state of the music module in the same  *)
(* step; the module's own timers (the 22 s scheduling interval and the     *)
(* 2000 ms teardown timeout of stopMusic) run in AudioSpec, which takes    *)
(* the handlers that call into the module together with those timers and   *)
(* a clock of 500 ms ticks that is only needed while a teardown is         *)
(* pending.  The timers touch no playback state, so Spec leaves them out.  *)
(*                                                                         *)
(* SortSpec applies sortChronologically to every record list up to MaxLen; *)
(* the playback specifications keep only the length N of the sorted list.  *)
(***************************************************************************)
EXTENDS Integers, FiniteSets, Sequences, TLC

\* ---------------------------------------------------------------- bounds
MaxN == 3              \* longest timeline explored
MaxDt == 2             \* largest gap between two animation frames, in time units
MaxPropChanges == 1    \* how often the host may hand over a new record list
MaxAudioSessions == 2  \* AudioContexts the browser lets the page build, in all
MaxReps == 2           \* chord batches one scheduling interval queues at most
MaxLen == 3            \* longest record list handed to sortChronologically

\* Duration of the line drawing, in time units of 2500 ms (5000 ms in the source).
ANIM_DURATION == 2

VARIABLES
    memories,          \* the memories prop, as far as sorting looks at it
    sortedMemories,    \* useMemo(() => sortChronologically(memories), [memories])
    N,                 \* sortedMemories.length
    status,            \* "mounted" | "unmounted" | "crashed"
    mapInstance,       \* TRUE when the mapInstance prop is an L.Map, FALSE when null
    propChanges,       \* number of record lists the host has handed over so far
    currentIndex, isAutoPlaying, musicEnabled, isStarted, isTransitioning,
    autoTimers,        \* pending autoplay timeouts, each with the closure it captured
    autoPlayTimerRef,  \* autoPlayTimerRef.current: id of the last timeout set, 0 = null
    isPlaying,         \* ambientMusic.ts module state
    audio,             \* the rest of ambientMusic.ts: audioCtx, schedulerTimer, the
                       \* contexts still open and the timers the module has pending
    anim,              \* refs of useAnimatedGlowingPath and its pending callbacks; live is
                       \* the session the last effect run started (0 once cleaned up),
                       \* traced the session segTrace records
    cam,               \* the Leaflet map: last camera command and whether a fly is running
    segStart,          \* history: currentIndex at the goNext() that set isTransitioning
    segTrace,          \* history: events of the live animation session, in order
    exited,            \* history: number of onExit() signals, capped at 2
    lastOp             \* history: what the last task did, and whether it acted for a dead session

vars == << memories, sortedMemories, N, status, mapInstance, propChanges, currentIndex, isAutoPlaying,
           musicEnabled, isStarted, isTransitioning, autoTimers, autoPlayTimerRef,
           isPlaying, audio, anim, cam, segStart, segTrace, exited, lastOp >>

SessionIds == 1 .. (MaxPropChanges + 2)

Min(a, b) == IF a < b THEN a ELSE b

\* audio: what the task's call of startMusic did ("none": it made no such call)
Op(name) == [op |-> name, stale |-> FALSE, seg |-> -1, audio |-> "none"]
OpS(name, st, from) == [op |-> name, stale |-> st, seg |-> from, audio |-> "none"]
OpA(name, au) == [op |-> name, stale |-> FALSE, seg |-> -1, audio |-> au]
OpT(name, st, id, au) == [op |-> name, stale |-> st, seg |-> id, audio |-> au]

\* ------------------------------------------------------------ the map
\* map.flyTo(target): the running fly, if any, is dropped without a 'moveend';
\* the new one fires 'moveend' when it arrives.
MapFlyTo(c, kind, a) == [target |-> <<kind, a, 0>>, flying |-> TRUE]

\* map.setView(point, zoom, {animate: false}): stops a running fly and moves at once.
MapSetView(c, from, e) == [target |-> <<"tip", from, e>>, flying |-> FALSE]

\* ------------------------------------------------- useAnimatedGlowingPath
UsedIds(a) == {x.id : x \in a.listeners} \cup {x.id : x \in a.pauseTimers}
                \cup {x.id : x \in a.frames}

NewId(a) == CHOOSE i \in SessionIds : i \notin UsedIds(a)
                /\ \A j \in SessionIds : j \notin UsedIds(a) => i <= j

\* cleanupLayers: removes every layer and cancels the frame rafRef points at.
cleanupLayers(map, a) ==
    IF ~map THEN a
    ELSE [a EXCEPT !.animLayers = FALSE,
                   !.frames = {f \in a.frames : f.id # a.rafRef},
                   !.rafRef = 0]

\* Mutant of AnimatorCleanup: the cleanup removes the layers but leaves the flag alone.
AnimatorCleanup_NoCancel(map, a) ==
    IF ~map THEN a ELSE cleanupLayers(map, [a EXCEPT !.live = 0])

\* The cleanup the effect returned on its previous run (none when map was null).
AnimatorCleanup(map, a) ==
    IF ~map THEN a
    ELSE cleanupLayers(map, [a EXCEPT !.cancelRef = TRUE, !.live = 0])

\* The effect body: reset the flag, redraw, and while transitioning start a session:
\* fly to the segment's start and wait for the map's next 'moveend'.
AnimatorRun(map, n, ci, tr, a, c) ==
    IF ~map THEN [a |-> a, c |-> c, threw |-> FALSE, started |-> FALSE]
    ELSE LET a1 == cleanupLayers(map, [a EXCEPT !.cancelRef = FALSE])
         IN  IF tr /\ ci < n - 1
             THEN IF ci < 0
                  THEN \* sortedMemories[-1] is undefined: reading .lat throws
                       [a |-> a1, c |-> c, threw |-> TRUE, started |-> FALSE]
                  ELSE LET s == NewId(a1)
                       IN  [a |-> [a1 EXCEPT !.animLayers = TRUE,
                                             !.listeners = @ \cup {[id |-> s, from |-> ci]},
                                             !.live = s, !.traced = s],
                            c |-> MapFlyTo(c, "memory", ci),
                            threw |-> FALSE, started |-> TRUE]
             ELSE [a |-> a1, c |-> c, threw |-> FALSE, started |-> FALSE]

\* Mutant of OnFlyEnd: the line starts drawing on arrival, without the pause.
OnFlyEnd_NoPause(a) ==
    [a EXCEPT !.listeners = {},
              !.frames = IF a.cancelRef THEN @
                         ELSE @ \cup {[id |-> l.id, from |-> l.from, elapsed |-> -1] :
                                        l \in a.listeners}]

\* onFlyEnd for every registered listener: unregister, and unless cancelled arm the pause.
OnFlyEnd(a) ==
    [a EXCEPT !.listeners = {},
              !.pauseTimers = IF a.cancelRef THEN @ ELSE @ \cup a.listeners]

\* ------------------------------------------------------- autoplay effect
\* Mutant of AutoplayGuard: the effect arms the timer during a transition as well.
AutoplayGuard_IgnoresTransition(st, ap, ci, tr) == st /\ ap /\ ci >= 0

\* if (!isStarted || !isAutoPlaying || currentIndex < 0 || isTransitioning) return;
AutoplayGuard(st, ap, ci, tr) == st /\ ap /\ ci >= 0 /\ ~tr

clearTimeout(timers, id) == {t \in timers : t.id # id}

\* Mutant of AutoplayCleanup: the effect returns no cleanup.
AutoplayCleanup_Missing(timers, ref) == timers

\* Cleanup returned by the autoplay effect: if (ref.current) clearTimeout(ref.current).
AutoplayCleanup(timers, ref) == IF ref # 0 THEN clearTimeout(timers, ref) ELSE timers

FreshTimerId(timers) ==
    CHOOSE i \in 1 .. (Cardinality(timers) + 1) : i \notin {t.id : t \in timers}

\* Mutant of NewTimer: the callback keeps the index of the render before.
NewTimer_StaleIndex(timers, st, ap, ci, tr) ==
    [id |-> FreshTimerId(timers), idx |-> currentIndex, trans |-> tr, started |-> st,
     auto |-> ap]

\* The timeout callback closes over currentIndex and over goNext, which closes over
\* currentIndex and isTransitioning of the same render.
NewTimer(timers, st, ap, ci, tr) ==
    [id |-> FreshTimerId(timers), idx |-> ci, trans |-> tr, started |-> st, auto |-> ap]

\* ----------------------------------------------------------- flyToMemory
flyToMemory(map, n, index, c) ==
    IF ~map \/ index < 0 \/ index >= n THEN c ELSE MapFlyTo(c, "memory", index)

\* ---------------------------------------------------------------- commit
\* React commits the state (ci, tr, st, ap) and props (map, memChanged) a task
\* produced: effects whose dependencies changed are cleaned up and run again.
\* a0, c0, t0, trace are the refs, the map and the history as the task's own body
\* left them.
Commit(ci0, tr0, st0, ap0, map, memChanged, a0, c0, t0, trace) ==
    LET \* a state update on a component that is no longer mounted is dropped
        ci == IF status = "mounted" THEN ci0 ELSE currentIndex
        tr == IF status = "mounted" THEN tr0 ELSE isTransitioning
        st == IF status = "mounted" THEN st0 ELSE isStarted
        ap == IF status = "mounted" THEN ap0 ELSE isAutoPlaying
        animDeps == map # mapInstance \/ memChanged
                      \/ ci # currentIndex \/ tr # isTransitioning
        r == IF animDeps
             THEN AnimatorRun(map, N, ci, tr, AnimatorCleanup(mapInstance, a0), c0)
             ELSE [a |-> a0, c |-> c0, threw |-> FALSE, started |-> FALSE]
        autoDeps == st # isStarted \/ ap # isAutoPlaying
                      \/ ci # currentIndex \/ tr # isTransitioning
        hadCleanup == AutoplayGuard(isStarted, isAutoPlaying, currentIndex, isTransitioning)
        t1 == IF autoDeps /\ hadCleanup THEN AutoplayCleanup(t0, autoPlayTimerRef) ELSE t0
        arm == autoDeps /\ AutoplayGuard(st, ap, ci, tr)
        nt == NewTimer(t1, st, ap, ci, tr)
        flyDeps == st # isStarted \/ ci # currentIndex \/ map # mapInstance \/ memChanged
        c2 == IF flyDeps /\ st /\ ci = 0 THEN flyToMemory(map, N, 0, r.c) ELSE r.c
    IN  /\ currentIndex' = ci
        /\ isTransitioning' = tr
        /\ isStarted' = st
        /\ isAutoPlaying' = ap
        /\ mapInstance' = map
        /\ anim' = r.a
        /\ segTrace' = IF r.started THEN << >> ELSE trace
        /\ IF r.threw
           THEN \* the error unmounts the tree: the other effects are torn down
                /\ status' = "crashed"
                /\ autoTimers' = AutoplayCleanup(t1, autoPlayTimerRef)
                /\ autoPlayTimerRef' = autoPlayTimerRef
                /\ cam' = r.c
           ELSE /\ status' = status
                /\ autoTimers' = IF arm THEN t1 \cup {nt} ELSE t1
                /\ autoPlayTimerRef' = IF arm THEN nt.id ELSE autoPlayTimerRef
                /\ cam' = c2

NoChange == Commit(currentIndex, isTransitioning, isStarted, isAutoPlaying,
                   mapInstance, FALSE, anim, cam, autoTimers, segTrace)

\* ------------------------------------------------------------------ audio
\* Mutant of startMusic: no isPlaying guard.
startMusic_NoGuard(playing, ok) ==
    IF ok THEN [playing |-> TRUE, audio |-> "started"]
    ELSE [playing |-> playing, audio |-> "refused"]

\* startMusic: a no-op while playing; else it builds the audio graph and sets
\* isPlaying, unless new AudioContext() throws (ok = FALSE), which leaves isPlaying
\* false and ends the calling handler.
startMusic(playing, ok) ==
    IF playing THEN [playing |-> TRUE, audio |-> "already"]
    ELSE IF ok THEN [playing |-> TRUE, audio |-> "started"]
    ELSE [playing |-> FALSE, audio |-> "refused"]

\* Mutant of stopMusic: the call leaves the session as it is.
stopMusic_Ignored(playing) == playing

\* stopMusic as seen through isMusicPlaying(): inactive afterwards.
stopMusic(playing) == FALSE

\* Times of the music module, in units of 500 ms.
FADE_OUT == 3          \* linearRampToValueAtTime(0, now + 1.5)
TEARDOWN_DELAY == 4    \* setTimeout(..., 2000)
FIRST_START == 1       \* nextStart = audioCtx.currentTime + 0.5
CHORD_DURATION == 6    \* 3.0 s
NUM_CHORDS == 8        \* CHORDS.length
LOOKAHEAD == 4         \* the 2 in (loopDuration - 2) * 1000

\* const loopDuration = CHORDS.length * CHORD_DURATION
loopDuration == NUM_CHORDS * CHORD_DURATION

\* Mutant of SchedulerPeriod: the interval runs once per loop plus the margin.
SchedulerPeriod_Late == loopDuration + LOOKAHEAD

\* Period of the scheduling interval: (loopDuration - 2) * 1000 ms.
SchedulerPeriod == loopDuration - LOOKAHEAD

\* scheduleChords(ctx, destination, startTime): chord i of the batch plays from
\* startTime + i * CHORD_DURATION for CHORD_DURATION; the time its last chord ends.
BatchEnd(startTime) == startTime + (NUM_CHORDS - 1) * CHORD_DURATION + CHORD_DURATION

\* Whether the browser may build one more AudioContext.
AudioOutcomes(au) == IF au.created < MaxAudioSessions THEN BOOLEAN ELSE {FALSE}

\* Mutant of startMusicBuild: the interval handle is not kept in schedulerTimer.
startMusicBuild_NoHandle(au) ==
    LET id == au.created + 1
    IN  [au EXCEPT !.audioCtx = id, !.created = id, !.open = @ \cup {id},
                   !.intervals = @ \cup {[id |-> id, fires |-> 0, firedAt |-> 0,
                                          nextStart |-> FIRST_START]}]

\* startMusic past its isPlaying guard, when the context can be built: a new
\* context (and master gain), the first batch queued at nextStart, and a new
\* interval whose handle overwrites schedulerTimer. The interval's closure holds
\* nextStart; firedAt is the time since setInterval at which it last ran.
startMusicBuild(au) ==
    LET id == au.created + 1
    IN  [au EXCEPT !.audioCtx = id, !.created = id, !.open = @ \cup {id},
                   !.intervals = @ \cup {[id |-> id, fires |-> 0, firedAt |-> 0,
                                          nextStart |-> FIRST_START]},
                   !.schedulerTimer = id]

\* Mutant of stopMusicRelease: the context is let go without the delayed teardown.
stopMusicRelease_NoTeardown(au, playing) ==
    IF ~playing \/ au.audioCtx = 0 THEN au ELSE [au EXCEPT !.audioCtx = 0]

\* stopMusic: a no-op unless playing with a context; else the fade starts, a
\* 2000 ms timeout that closes over the context is set, and audioCtx and masterGain
\* are nulled. age is the time since the timeout was set.
stopMusicRelease(au, playing) ==
    IF ~playing \/ au.audioCtx = 0 THEN au
    ELSE [au EXCEPT !.teardowns = @ \cup {[ctx |-> au.audioCtx, age |-> 0]},
                    !.audioCtx = 0]

\* What startMusic leaves of the module state, given its outcome.
startMusicState(au, outcome) == IF outcome = "started" THEN startMusicBuild(au) ELSE au

\* ------------------------------------------------------------------- Init
\* ------------------------------------------------------------------ sorter
\* Instants are counted in units of 12 h since 1970-01-01T00:00Z.
UNITS_PER_DAY == 2

\* new Date("YYYY-MM-DD").getTime(): a date-only string is midnight UTC of that
\* day of the proleptic Gregorian calendar. d is << year, month, day >>.
DateParse(d) ==
    LET y   == IF d[2] <= 2 THEN d[1] - 1 ELSE d[1]
        era == y \div 400
        yoe == y - era * 400
        mp  == (d[2] + 9) % 12
        doy == (153 * mp + 2) \div 5 + d[3] - 1
        doe == yoe * 365 + yoe \div 4 - yoe \div 100 + doy
    IN  (era * 146097 + doe - 719468) * UNITS_PER_DAY

\* Mutant of effectiveTime: memoryDate is ignored.
effectiveTime_CreatedOnly(m) == m.createdAt

\* a.memoryDate ? new Date(a.memoryDate).getTime() : a.createdAt;
\* an absent memoryDate is << >>.
effectiveTime(m) == IF m.memoryDate # << >> THEN DateParse(m.memoryDate) ELSE m.createdAt

\* The comparator: dateA - dateB.
compare(a, b) == effectiveTime(a) - effectiveTime(b)

\* Array.prototype.sort with a comparator: a stable sort. x is put behind every
\* element of the sorted prefix s that does not compare greater than it.
RECURSIVE InsertLast(_, _)
InsertLast(s, x) ==
    IF s = << >> THEN << x >>
    ELSE IF compare(s[Len(s)], x) > 0
         THEN Append(InsertLast(SubSeq(s, 1, Len(s) - 1), x), s[Len(s)])
         ELSE Append(s, x)

RECURSIVE ArraySort(_)
ArraySort(s) ==
    IF s = << >> THEN << >>
    ELSE InsertLast(ArraySort(SubSeq(s, 1, Len(s) - 1)), s[Len(s)])

\* [...memories].sort(...): a sorted copy.
sortChronologically(ms) == ArraySort(ms)

\* Mutant of inputAfterSort: memories.sort(...) on the argument itself.
inputAfterSort_InPlace(ms) == ArraySort(ms)

\* The argument array after the call: the spread copied it, so it is as before.
inputAfterSort(ms) == ms

\* The records the sorter is tried on: three dated records whose creation order
\* differs from the order of their dates, and undated records created at the
\* midnight of one of those dates (twice) and half a day later.
Jan1 == << 2024, 1, 1 >>
Jun15 == << 2024, 6, 15 >>
Dec25 == << 2023, 12, 25 >>
RecA == [id |-> 1, memoryDate |-> Jan1, createdAt |-> DateParse(<< 2024, 7, 3 >>)]
RecB == [id |-> 2, memoryDate |-> Jun15, createdAt |-> DateParse(<< 2024, 7, 2 >>)]
RecC == [id |-> 3, memoryDate |-> Dec25, createdAt |-> DateParse(<< 2024, 7, 4 >>)]
RecD == [id |-> 4, memoryDate |-> << >>, createdAt |-> DateParse(Jan1)]
RecE == [id |-> 5, memoryDate |-> << >>, createdAt |-> DateParse(Jan1) + 1]
RecF == [id |-> 6, memoryDate |-> << >>, createdAt |-> DateParse(Jan1)]
Records == {RecA, RecB, RecC, RecD, RecE, RecF}
RecordLists == UNION {[1 .. n -> Records] : n \in 0 .. MaxLen}

Init ==
    /\ memories = << >>
    /\ sortedMemories = << >>
    /\ N \in 0 .. MaxN
    /\ status = "mounted"
    /\ mapInstance \in BOOLEAN
    /\ propChanges = 0
    /\ currentIndex = -1
    /\ isAutoPlaying = TRUE
    /\ musicEnabled = TRUE
    /\ isStarted = FALSE
    /\ isTransitioning = FALSE
    /\ autoTimers = {}
    /\ autoPlayTimerRef = 0
    /\ isPlaying = FALSE
    /\ audio = [audioCtx |-> 0, schedulerTimer |-> 0, created |-> 0, open |-> {},
                intervals |-> {}, teardowns |-> {}]
    /\ anim = [cancelRef |-> FALSE, rafRef |-> 0, animLayers |-> FALSE,
               listeners |-> {}, pauseTimers |-> {}, frames |-> {}, live |-> 0,
               traced |-> 0]
    /\ cam = [target |-> <<"init", 0, 0>>, flying |-> FALSE]
    /\ segStart = -1
    /\ segTrace = << >>
    /\ exited = 0
    /\ lastOp = Op("init")

\* The view is mounted with a record list; nothing is sorted yet.
SortInit ==
    /\ memories \in RecordLists
    /\ sortedMemories = << >>
    /\ N = 0
    /\ status = "mounted"
    /\ mapInstance = FALSE
    /\ propChanges = 0
    /\ currentIndex = -1
    /\ isAutoPlaying = TRUE
    /\ musicEnabled = TRUE
    /\ isStarted = FALSE
    /\ isTransitioning = FALSE
    /\ autoTimers = {}
    /\ autoPlayTimerRef = 0
    /\ isPlaying = FALSE
    /\ audio = [audioCtx |-> 0, schedulerTimer |-> 0, created |-> 0, open |-> {},
                intervals |-> {}, teardowns |-> {}]
    /\ anim = [cancelRef |-> FALSE, rafRef |-> 0, animLayers |-> FALSE,
               listeners |-> {}, pauseTimers |-> {}, frames |-> {}, live |-> 0,
               traced |-> 0]
    /\ cam = [target |-> <<"init", 0, 0>>, flying |-> FALSE]
    /\ segStart = -1
    /\ segTrace = << >>
    /\ exited = 0
    /\ lastOp = Op("init")

\* The first render evaluates the useMemo: sortedMemories is the sorted copy.
SortMemo ==
    /\ lastOp.op = "init"
    /\ sortedMemories' = sortChronologically(memories)
    /\ memories' = inputAfterSort(memories)
    /\ N' = Len(sortChronologically(memories))
    /\ lastOp' = Op("sort")
    /\ UNCHANGED << status, mapInstance, propChanges, currentIndex,
                    isAutoPlaying, musicEnabled, isStarted, isTransitioning, autoTimers,
                    autoPlayTimerRef, isPlaying, audio, anim, cam, segStart, segTrace,
                    exited >>

SortSpec == SortInit /\ [][SortMemo]_vars

Mounted == status = "mounted"
ControlsShown == Mounted /\ N > 0 /\ isStarted /\ currentIndex >= 0

\* ---------------------------------------------------------------- actions
\* Mutant of startJourneyAudio: the journey starts without the music.
startJourneyAudio_Never(me, playing, ok) == [playing |-> playing, audio |-> "none"]

\* if (musicEnabled) startMusic();
startJourneyAudio(me, playing, ok) ==
    IF me THEN startMusic(playing, ok) ELSE [playing |-> playing, audio |-> "none"]

\* "Start Our Story" button, rendered while !isStarted on a non-empty timeline. The
\* two state updates are queued before startMusic is called, so React applies them
\* even when startMusic throws.
startJourney ==
    /\ Mounted /\ N > 0 /\ ~isStarted
    /\ Commit(0, isTransitioning, TRUE, isAutoPlaying, mapInstance, FALSE,
              anim, cam, autoTimers, segTrace)
    /\ \E ok \in AudioOutcomes(audio) :
          LET m == startJourneyAudio(musicEnabled, isPlaying, ok)
          IN  /\ isPlaying' = m.playing
              /\ audio' = startMusicState(audio, m.audio)
              /\ lastOp' = OpA("start", m.audio)
    /\ UNCHANGED << N, memories, sortedMemories, propChanges, musicEnabled, segStart, exited >>

\* Mutant of goNextClosure: the bound check lets the last index through.
goNextClosure_LooseBound(n, ci, tr, curIdx, curTr) ==
    IF tr THEN [index |-> curIdx, trans |-> curTr]
    ELSE IF ci <= n - 1 THEN [index |-> curIdx, trans |-> TRUE]
    ELSE [index |-> curIdx, trans |-> curTr]

\* Mutant of goNextClosure: goNext also advances the index at once, as the earlier
\* fly-only playback did.
goNextClosure_Immediate(n, ci, tr, curIdx, curTr) ==
    IF tr THEN [index |-> curIdx, trans |-> curTr]
    ELSE IF ci < n - 1 THEN [index |-> ci + 1, trans |-> TRUE]
    ELSE [index |-> curIdx, trans |-> curTr]

\* goNext as created by the render with index ci and flag tr, called when the
\* committed state is (curIdx, curTr): the state it asks React for.
goNextClosure(n, ci, tr, curIdx, curTr) ==
    IF tr THEN [index |-> curIdx, trans |-> curTr]
    ELSE IF ci < n - 1 THEN [index |-> curIdx, trans |-> TRUE]
    ELSE [index |-> curIdx, trans |-> curTr]

\* ArrowRight / Space (bound whenever mounted) or the next button.
goNext ==
    /\ Mounted
    /\ LET g == goNextClosure(N, currentIndex, isTransitioning, currentIndex, isTransitioning)
       IN  /\ Commit(g.index, g.trans, isStarted, isAutoPlaying, mapInstance, FALSE,
                     anim, cam, autoTimers, segTrace)
           /\ segStart' = IF ~isTransitioning /\ g.trans THEN currentIndex ELSE segStart
    /\ lastOp' = Op("goNext")
    /\ UNCHANGED << N, memories, sortedMemories, audio, propChanges, musicEnabled, isPlaying, exited >>

\* Mutant of goPrevIndex: no check for the first record.
goPrevIndex_NoLowerBound(ci, tr) == IF tr THEN ci ELSE ci - 1

\* Mutant of goPrevIndex: no isTransitioning guard.
goPrevIndex_NoGuard(ci, tr) == IF ci > 0 THEN ci - 1 ELSE ci

\* goPrev: the index it asks React for.
goPrevIndex(ci, tr) == IF tr THEN ci ELSE IF ci > 0 THEN ci - 1 ELSE ci

\* ArrowLeft (bound whenever mounted) or the previous button.
goPrev ==
    /\ Mounted
    /\ LET ci == goPrevIndex(currentIndex, isTransitioning)
       IN  Commit(ci, isTransitioning, isStarted, isAutoPlaying, mapInstance, FALSE, anim,
                  IF ci # currentIndex THEN flyToMemory(mapInstance, N, ci, cam) ELSE cam,
                  autoTimers, segTrace)
    /\ lastOp' = Op("goPrev")
    /\ UNCHANGED << N, memories, sortedMemories, audio, propChanges, musicEnabled, isPlaying, segStart, exited >>

\* Mutant of toggleAutoplayValue: the button only ever pauses.
toggleAutoplayValue_OnlyPause(ap) == FALSE

\* setIsAutoPlaying(!isAutoPlaying)
toggleAutoplayValue(ap) == ~ap

\* Play / pause button.
toggleAutoplay ==
    /\ ControlsShown
    /\ Commit(currentIndex, isTransitioning, isStarted,
              toggleAutoplayValue(isAutoPlaying), mapInstance,
              FALSE, anim, cam, autoTimers, segTrace)
    /\ lastOp' = Op("toggleAutoplay")
    /\ UNCHANGED << N, memories, sortedMemories, audio, propChanges, musicEnabled, isPlaying, segStart, exited >>

\* Mutant of toggleMusicResult: the button flips the flag and leaves the music alone.
toggleMusicResult_FlagOnly(me, playing, ok) ==
    [enabled |-> ~me, playing |-> playing, audio |-> "none"]

\* toggleMusic: if (isMusicPlaying()) { stopMusic(); setMusicEnabled(false) }
\* else { startMusic(); setMusicEnabled(true) }. When startMusic throws,
\* setMusicEnabled(true) is not reached.
toggleMusicResult(me, playing, ok) ==
    IF playing
    THEN [enabled |-> FALSE, playing |-> stopMusic(playing), audio |-> "none"]
    ELSE LET m == startMusic(playing, ok)
         IN  [enabled |-> IF m.audio = "refused" THEN me ELSE TRUE,
              playing |-> m.playing, audio |-> m.audio]

\* Music button.
toggleMusic ==
    /\ ControlsShown
    /\ \E ok \in AudioOutcomes(audio) :
          LET m == toggleMusicResult(musicEnabled, isPlaying, ok)
          IN  /\ isPlaying' = m.playing
              /\ audio' = IF isPlaying THEN stopMusicRelease(audio, isPlaying)
                          ELSE startMusicState(audio, m.audio)
              /\ musicEnabled' = m.enabled
              /\ lastOp' = OpA("toggleMusic", m.audio)
    /\ NoChange
    /\ UNCHANGED << N, memories, sortedMemories, propChanges, segStart, exited >>

\* Mutant of skipIndex: the skip moves one record ahead only.
skipIndex_StepOne(n, ci, tr) == IF tr THEN ci ELSE Min(ci + 1, n - 1)

\* Mutant of skipIndex: the last index taken as the length.
skipIndex_OffByOne(n, ci, tr) == IF tr THEN ci ELSE n

\* const last = sortedMemories.length - 1; setCurrentIndex(last)
skipIndex(n, ci, tr) == IF tr THEN ci ELSE n - 1

\* Skip-to-end button.
skipToEnd ==
    /\ ControlsShown
    /\ IF isTransitioning
       THEN NoChange
       ELSE Commit(skipIndex(N, currentIndex, isTransitioning), isTransitioning, isStarted,
                   FALSE, mapInstance, FALSE, anim,
                   flyToMemory(mapInstance, N, N - 1, cam), autoTimers, segTrace)
    /\ lastOp' = Op("skipToEnd")
    /\ UNCHANGED << N, memories, sortedMemories, audio, propChanges, musicEnabled, isPlaying, segStart, exited >>

\* The host reacts to onExit() by removing the playback view: every effect is cleaned up.
HostTearDown(a, timers, ref) ==
    [a |-> AnimatorCleanup(mapInstance, a),
     t |-> IF AutoplayGuard(isStarted, isAutoPlaying, currentIndex, isTransitioning)
           THEN AutoplayCleanup(timers, ref) ELSE timers]

\* Escape (bound whenever mounted) or one of the close buttons.
handleExit ==
    /\ Mounted
    /\ isPlaying' = stopMusic(isPlaying)
    /\ audio' = stopMusicRelease(audio, isPlaying)
    /\ LET t0 == IF autoPlayTimerRef # 0 THEN clearTimeout(autoTimers, autoPlayTimerRef)
                 ELSE autoTimers
           c0 == IF mapInstance THEN MapFlyTo(cam, "overview", 0) ELSE cam
           h  == HostTearDown(anim, t0, autoPlayTimerRef)
       IN  /\ anim' = h.a
           /\ autoTimers' = h.t
           /\ cam' = c0
    /\ exited' = Min(exited + 1, 2)
    /\ status' = "unmounted"
    /\ lastOp' = Op("exit")
    /\ UNCHANGED << N, memories, sortedMemories, mapInstance, propChanges, currentIndex, isAutoPlaying, musicEnabled,
                    isStarted, isTransitioning, autoPlayTimerRef, segStart, segTrace >>

\* Mutant of TimerCallback: the end of the timeline is not detected.
TimerCallback_NoEndCheck(n, t, curIdx, curTr, curAp) ==
    LET g == goNextClosure(n, t.idx, t.trans, curIdx, curTr)
    IN  [index |-> g.index, trans |-> g.trans, auto |-> curAp]

\* The timeout callback of the render that armed timer t, run when the committed
\* state is (curIdx, curTr, curAp): goNext() before the last index, else
\* setIsAutoPlaying(false).
TimerCallback(n, t, curIdx, curTr, curAp) ==
    IF t.idx < n - 1
    THEN LET g == goNextClosure(n, t.idx, t.trans, curIdx, curTr)
         IN  [index |-> g.index, trans |-> g.trans, auto |-> curAp]
    ELSE [index |-> curIdx, trans |-> curTr, auto |-> FALSE]

\* The 4000 ms autoplay timeout fires and runs the closure it was created with.
AutoplayTimerFire ==
    \E t \in autoTimers :
        /\ LET g == TimerCallback(N, t, currentIndex, isTransitioning, isAutoPlaying)
           IN  /\ Commit(g.index, g.trans, isStarted, g.auto, mapInstance,
                         FALSE, anim, cam, autoTimers \ {t}, segTrace)
               /\ segStart' = IF Mounted /\ ~isTransitioning /\ g.trans
                              THEN currentIndex ELSE segStart
        /\ lastOp' = OpS("timer", FALSE, t.idx)
        /\ UNCHANGED << N, memories, sortedMemories, audio, propChanges, musicEnabled, isPlaying, exited >>

\* The map reports 'moveend': the running fly has arrived.
MoveEnd ==
    /\ cam.flying
    /\ cam' = [cam EXCEPT !.flying = FALSE]
    /\ anim' = OnFlyEnd(anim)
    /\ segTrace' = IF \E l \in anim.listeners : l.id = anim.traced
                   THEN Append(segTrace, "arrive") ELSE segTrace
    /\ lastOp' = OpS("moveend", \E l \in OnFlyEnd(anim).pauseTimers \ anim.pauseTimers :
                                    l.id # anim.live,
                     IF \E l \in anim.listeners : l.id = anim.live
                     THEN (CHOOSE l \in anim.listeners : l.id = anim.live).from ELSE -1)
    /\ UNCHANGED << N, memories, sortedMemories, audio, status, mapInstance, propChanges, currentIndex, isAutoPlaying,
                    musicEnabled, isStarted, isTransitioning, autoTimers,
                    autoPlayTimerRef, isPlaying, segStart, exited >>

\* The 400 ms pause armed by onFlyEnd elapses.
PauseArm(a, p) ==
    IF a.cancelRef THEN [a EXCEPT !.pauseTimers = @ \ {p}]
    ELSE [a EXCEPT !.pauseTimers = @ \ {p},
                   !.frames = @ \cup {[id |-> p.id, from |-> p.from, elapsed |-> -1]},
                   !.rafRef = p.id]

PauseTimerFire ==
    \E p \in anim.pauseTimers :
        /\ anim' = PauseArm(anim, p)
        /\ segTrace' = IF p.id = anim.traced THEN Append(segTrace, "pause") ELSE segTrace
        /\ lastOp' = OpS("pause", PauseArm(anim, p).frames # anim.frames /\ p.id # anim.live,
                           p.from)
        /\ UNCHANGED << N, memories, sortedMemories, audio, status, mapInstance, propChanges, currentIndex, isAutoPlaying,
                        musicEnabled, isStarted, isTransitioning, autoTimers,
                        autoPlayTimerRef, isPlaying, cam, segStart, exited >>

\* Mutant of handleTransitionComplete: the flag is not cleared.
handleTransitionComplete_KeepsFlag(ci, tr) == [index |-> ci + 1, trans |-> tr]

\* handleTransitionComplete: the state it asks React for.
handleTransitionComplete(ci, tr) == [index |-> ci + 1, trans |-> FALSE]

\* elapsed time of the frame f after dt more time units; -1 is startTime === null
Elapsed(f, dt) == IF f.elapsed = -1 THEN 0 ELSE Min(f.elapsed + dt, ANIM_DURATION)

\* rawT < 1
RawTBelowOne(e) == e < ANIM_DURATION

\* animate bails out when the shared flag is set.
AnimateCancelled(a) == a.cancelRef

\* A requested animation frame runs animate(now).
AnimationFrame ==
    \E f \in anim.frames, dt \in 1 .. MaxDt :
        LET a0 == [anim EXCEPT !.frames = @ \ {f}]
            e  == Elapsed(f, dt)
            \* setView moves the map, which reports 'moveend' to whoever listens
            a1 == OnFlyEnd(a0)
            c1 == MapSetView(cam, f.from, e)
        IN  IF AnimateCancelled(anim)
            THEN /\ anim' = a0
                 /\ lastOp' = Op("frameDiscarded")
                 /\ UNCHANGED << N, memories, sortedMemories, audio, status, mapInstance, propChanges, currentIndex,
                                 isAutoPlaying, musicEnabled, isStarted, isTransitioning,
                                 autoTimers, autoPlayTimerRef, isPlaying, cam, segStart,
                                 segTrace, exited >>
            ELSE IF RawTBelowOne(e)
            THEN /\ anim' = [a1 EXCEPT !.frames = @ \cup {[f EXCEPT !.elapsed = e]},
                                       !.rafRef = f.id]
                 /\ cam' = c1
                 /\ segTrace' = IF f.id = anim.traced THEN Append(segTrace, "tick")
                                ELSE segTrace
                 /\ lastOp' = OpS("tick", f.id # anim.live, f.from)
                 /\ UNCHANGED << N, memories, sortedMemories, audio, status, mapInstance, propChanges, currentIndex,
                                 isAutoPlaying, musicEnabled, isStarted, isTransitioning,
                                 autoTimers, autoPlayTimerRef, isPlaying, segStart, exited >>
            ELSE LET h == handleTransitionComplete(currentIndex, isTransitioning)
                     done == IF f.id = anim.traced THEN Append(segTrace, "complete")
                             ELSE segTrace
                 IN  /\ Commit(h.index, h.trans, isStarted, isAutoPlaying, mapInstance,
                               FALSE, a1, c1, autoTimers, done)
                     /\ lastOp' = OpS("complete", f.id # anim.live, f.from)
                     /\ UNCHANGED << N, memories, sortedMemories, audio, propChanges, musicEnabled, isPlaying, segStart,
                                     exited >>

\* The host hands over the map once it exists.
MapReady ==
    /\ Mounted /\ ~mapInstance
    /\ Commit(currentIndex, isTransitioning, isStarted, isAutoPlaying, TRUE, FALSE,
              anim, cam, autoTimers, segTrace)
    /\ lastOp' = Op("mapReady")
    /\ UNCHANGED << N, memories, sortedMemories, audio, propChanges, musicEnabled, isPlaying, segStart, exited >>

\* The host re-renders with a new array holding the same records.
MemoriesChanged ==
    /\ Mounted /\ propChanges < MaxPropChanges
    /\ propChanges' = propChanges + 1
    /\ Commit(currentIndex, isTransitioning, isStarted, isAutoPlaying, mapInstance, TRUE,
              anim, cam, autoTimers, segTrace)
    /\ lastOp' = Op("memoriesChanged")
    /\ UNCHANGED << N, memories, sortedMemories, audio, musicEnabled, isPlaying, segStart, exited >>

Next ==
    \/ startJourney
    \/ goNext
    \/ goPrev
    \/ toggleAutoplay
    \/ toggleMusic
    \/ skipToEnd
    \/ handleExit
    \/ AutoplayTimerFire
    \/ MoveEnd
    \/ PauseTimerFire
    \/ AnimationFrame
    \/ MapReady

Spec == Init /\ [][Next]_vars

\* The browser delivers every event it owes: the map's 'moveend', elapsed timeouts
\* and requested animation frames.
Fairness ==
    /\ WF_vars(MoveEnd)
    /\ WF_vars(PauseTimerFire)
    /\ WF_vars(AnimationFrame)
    /\ WF_vars(AutoplayTimerFire)

FairSpec == Spec /\ Fairness

NextHost == Next \/ MemoriesChanged

SpecHost == Init /\ [][NextHost]_vars

\* Keys pressed on the intro screen, before the Start button.
IdleInput == ~isStarted /\ (goNext \/ goPrev \/ handleExit)

\* --------------------------------------------- timers of the music module
\* 500 ms pass. A timeout that is due runs before more time passes.
AudioTick ==
    /\ audio.teardowns # {}
    /\ \A t \in audio.teardowns : t.age < TEARDOWN_DELAY
    /\ audio' = [audio EXCEPT !.teardowns = {[t EXCEPT !.age = @ + 1] : t \in @}]
    /\ lastOp' = Op("audioTick")
    /\ UNCHANGED << N, memories, sortedMemories, status, mapInstance, propChanges, currentIndex, isAutoPlaying,
                    musicEnabled, isStarted, isTransitioning, autoTimers,
                    autoPlayTimerRef, isPlaying, anim, cam, segStart, segTrace, exited >>

\* Mutant of TeardownRun: the interval is cleared only if it is still the one of
\* the context being closed.
TeardownRun_OwnIntervalOnly(au, t) ==
    [au EXCEPT !.intervals = {i \in @ : i.id # t.ctx},
               !.schedulerTimer = IF @ = t.ctx THEN 0 ELSE @,
               !.open = @ \ {t.ctx},
               !.teardowns = @ \ {t}]

\* The timeout set by stopMusic: if (schedulerTimer) { clearInterval(schedulerTimer);
\* schedulerTimer = null; } ctx.close(). schedulerTimer is the module's variable as
\* it is when the timeout runs; ctx is the context the timeout closed over.
TeardownRun(au, t) ==
    [au EXCEPT !.intervals = IF au.schedulerTimer # 0
                             THEN {i \in @ : i.id # au.schedulerTimer} ELSE @,
               !.schedulerTimer = 0,
               !.open = @ \ {t.ctx},
               !.teardowns = @ \ {t}]

\* The 2000 ms teardown timeout of a stopped session fires; timeouts of equal delay
\* fire in the order they were set.
AudioTeardownFire ==
    \E t \in audio.teardowns :
        /\ t.age >= TEARDOWN_DELAY
        /\ \A u \in audio.teardowns : u.age >= TEARDOWN_DELAY => u.ctx >= t.ctx
        /\ audio' = TeardownRun(audio, t)
        /\ lastOp' = OpT("teardown", audio.schedulerTimer \notin {0, t.ctx}, t.ctx, "none")
        /\ UNCHANGED << N, memories, sortedMemories, status, mapInstance, propChanges, currentIndex, isAutoPlaying,
                        musicEnabled, isStarted, isTransitioning, autoTimers,
                        autoPlayTimerRef, isPlaying, anim, cam, segStart, segTrace,
                        exited >>

\* The interval callback: if (!audioCtx || !isPlaying) return; nextStart +=
\* loopDuration; scheduleChords(audioCtx, mergeNode, nextStart). audioCtx and
\* isPlaying are the module's variables, nextStart and mergeNode the closure's.
IntervalRun(au, playing, i) ==
    LET ran == [i EXCEPT !.fires = @ + 1, !.firedAt = @ + SchedulerPeriod]
    IN  IF au.audioCtx = 0 \/ ~playing
        THEN [au EXCEPT !.intervals = (@ \ {i}) \cup {ran}]
        ELSE [au EXCEPT !.intervals =
                 (@ \ {i}) \cup {[ran EXCEPT !.nextStart = @ + loopDuration]}]

\* A scheduling interval that has not been cleared fires once more.
AudioIntervalFire ==
    \E i \in audio.intervals :
        /\ i.fires < MaxReps
        /\ audio' = IntervalRun(audio, isPlaying, i)
        /\ lastOp' = IF audio.audioCtx = 0 \/ ~isPlaying
                      THEN OpT("interval", FALSE, i.id, "skipped")
                      ELSE OpT("interval", i.id # audio.audioCtx, i.id, "queued")
        /\ UNCHANGED << N, memories, sortedMemories, status, mapInstance, propChanges, currentIndex, isAutoPlaying,
                        musicEnabled, isStarted, isTransitioning, autoTimers,
                        autoPlayTimerRef, isPlaying, anim, cam, segStart, segTrace,
                        exited >>

\* The music controls and the music module's timers, the journey standing still.
NextAudio ==
    \/ startJourney
    \/ toggleMusic
    \/ handleExit
    \/ AudioTick
    \/ AudioTeardownFire
    \/ AudioIntervalFire

AudioFairness ==
    /\ WF_vars(AudioTick)
    /\ WF_vars(AudioTeardownFire)
    /\ WF_vars(AudioIntervalFire)

AudioSpec == Init /\ [][NextAudio]_vars /\ AudioFairness

\* Playback left alone: after the Start button nobody touches a key or a control.
NextAuto ==
    \/ IdleInput
    \/ startJourney
    \/ AutoplayTimerFire
    \/ MoveEnd
    \/ PauseTimerFire
    \/ AnimationFrame
    \/ MapReady

AutoSpec == Init /\ [][NextAuto]_vars /\ Fairness

\* ----------------------------------------------------------------- claims

\* C1: from the goNext() that sets isTransitioning until the animator's completion
\* signal, currentIndex keeps the value it had when goNext() was called: whenever
\* isTransitioning is true, currentIndex is the index recorded at that goNext().
C1_IndexHeldWhileTransitioning == isTransitioning => currentIndex = segStart

\* C2: a segment animation started at index i that runs to completion ends with
\* currentIndex = i + 1 and isTransitioning = FALSE.
C2_CompletionAdvancesByOne ==
    (lastOp.op = "complete" /\ ~lastOp.stale)
        => (currentIndex = lastOp.seg + 1 /\ ~isTransitioning)

C2_Witness ==
    N = 3 /\ lastOp.op = "complete" /\ lastOp.seg = 0 /\ currentIndex = 1
          /\ ~isTransitioning

\* C3: goNext() (key, button or autoplay timer) never moves currentIndex itself, and
\* while isTransitioning is already true it changes nothing of the playback state or
\* of the running animation; inside a transition the index moves only by the one
\* completion of that animation, by exactly one.
C3_OneAdvancePerAnimation ==
    [][ /\ (lastOp'.op \in {"goNext", "timer"}) => currentIndex' = currentIndex
        /\ (lastOp'.op \in {"goNext", "timer"} /\ isTransitioning)
              => (isTransitioning' /\ anim' = anim /\ cam' = cam)
        /\ (isTransitioning /\ isStarted /\ currentIndex' # currentIndex)
              => (lastOp'.op = "complete" /\ currentIndex' = currentIndex + 1
                    /\ ~isTransitioning' /\ anim'.frames = {}) ]_vars

C3_Witness ==
    lastOp.op = "goNext" /\ isTransitioning /\ Len(segTrace) >= 3 /\ currentIndex = 1

\* C4: isTransitioning implies the journey is started and currentIndex is a segment
\* start, 0 <= currentIndex <= N - 2.
C4_TransitioningAtSegmentStart ==
    isTransitioning => (isStarted /\ 0 <= currentIndex /\ currentIndex <= N - 2)

C6_ExitCancelsSegment ==
    [][ status = "unmounted"
          => (currentIndex' = currentIndex /\ isTransitioning' = isTransitioning
                /\ lastOp'.op \notin {"tick", "complete"}) ]_vars

C6_Witness ==
    status = "unmounted" /\ isTransitioning /\ lastOp.op = "pause"
        /\ anim.frames = {} /\ anim.pauseTimers = {} /\ anim.listeners = {}

\* C7: a callback registered by an animation session that has been replaced or torn
\* down never ticks and never calls the completion handler.
C7_StaleCallbacksInert == ~(lastOp.stale /\ lastOp.op \in {"tick", "complete"})

\* The order of events the animator allows within one segment.
LegalTrace(t) ==
    \A i \in 1 .. Len(t) :
        /\ (i = 1) => t[i] = "arrive"
        /\ (i = 2) => t[i] = "pause"
        /\ (i >= 3) => t[i] \in {"tick", "complete"}
        /\ (t[i] = "complete") => (i = Len(t) /\ i >= 4)

C9_TransitioningEnds == isTransitioning ~> (~isTransitioning \/ status = "unmounted")

\* C10: a pending autoplay timer always holds the currentIndex and the flags that are
\* current: a change of isStarted, isAutoPlaying, currentIndex or isTransitioning
\* cancels it before it can fire.
C10_NoStaleAutoplayTimer ==
    \A t \in autoTimers :
        /\ status = "mounted"
        /\ t.idx = currentIndex /\ t.trans = isTransitioning
        /\ t.started = isStarted /\ t.auto = isAutoPlaying

C10_Witness ==
    /\ lastOp.op = "goPrev" /\ currentIndex = 0 /\ N = 3
    /\ \E t \in autoTimers : t.idx = 0

\* C11: an autoplay timer is pending only while isAutoPlaying, isStarted,
\* currentIndex >= 0 and not isTransitioning, and at most one is pending.
C11_TimerOnlyWhenIdleAutoplay ==
    /\ autoTimers # {}
          => (isAutoPlaying /\ isStarted /\ currentIndex >= 0 /\ ~isTransitioning)
    /\ Cardinality(autoTimers) <= 1

C11_Witness ==
    /\ Cardinality(autoTimers) = 1 /\ lastOp.op = "complete" /\ currentIndex = 1
    /\ isAutoPlaying /\ isStarted /\ ~isTransitioning

\* C12: the autoplay timer firing at the last index clears isAutoPlaying and starts
\* no animation: isTransitioning stays false, currentIndex stays N - 1 and neither
\* the animator nor the camera is touched.
C12_TimerAtEndStopsAutoplay ==
    [][ (lastOp'.op = "timer" /\ currentIndex = N - 1)
          => (/\ ~isAutoPlaying'
              /\ ~isTransitioning /\ ~isTransitioning'
              /\ currentIndex' = N - 1
              /\ anim' = anim /\ cam' = cam
              /\ autoTimers' = {}) ]_vars

C12_Witness ==
    /\ lastOp.op = "timer" /\ lastOp.seg = N - 1 /\ N = 3 /\ currentIndex = 2
    /\ ~isAutoPlaying /\ segTrace # << >>

\* C13: left alone after start with autoplay on, currentIndex moves only from i to
\* i + 1 (0 first, N - 1 last, nothing skipped or repeated), and with every timer,
\* camera arrival and animation frame delivered the playback eventually rests at
\* currentIndex = N - 1 with isAutoPlaying false.
C13_AutoplayRevealsAll ==
    /\ [][ currentIndex' # currentIndex
             => (currentIndex' = currentIndex + 1 /\ currentIndex' <= N - 1) ]_vars
    /\ isStarted ~> (currentIndex = N - 1 /\ ~isAutoPlaying)

\* C14: goPrev and skipToEnd attempted while isTransitioning is true do not throw
\* and change nothing: currentIndex, isStarted, isTransitioning, isAutoPlaying,
\* musicEnabled, the running animation, the camera and the timers stay as they are.
C14_NavIgnoredWhileTransitioning ==
    [][ (lastOp'.op \in {"goPrev", "skipToEnd"} /\ isTransitioning)
          => (/\ status' = status
              /\ UNCHANGED << currentIndex, isStarted, isTransitioning, isAutoPlaying,
                              musicEnabled, isPlaying, anim, cam, autoTimers >>) ]_vars

C14_Witness ==
    /\ lastOp.op \in {"goPrev", "skipToEnd"} /\ isTransitioning /\ isStarted
    /\ currentIndex = 1 /\ anim.frames # {} /\ status = "mounted"

\* C15: goPrev outside a transition at currentIndex > 0 lowers currentIndex by
\* exactly one in the same step, leaves isTransitioning false and starts no animation
\* session; at currentIndex <= 0 it changes nothing.
C15_GoPrevStepsBackOnce ==
    [][ (lastOp'.op = "goPrev" /\ ~isTransitioning)
          => IF currentIndex > 0
             THEN /\ currentIndex' = currentIndex - 1
                  /\ ~isTransitioning'
                  /\ anim'.live = 0 /\ ~anim'.animLayers
                  /\ anim'.listeners = {} /\ anim'.pauseTimers = {} /\ anim'.frames = {}
                  /\ UNCHANGED << isStarted, isAutoPlaying, musicEnabled, status >>
             ELSE UNCHANGED << currentIndex, isStarted, isTransitioning, isAutoPlaying,
                               musicEnabled, isPlaying, anim, cam, autoTimers, status >>
      ]_vars

C15_Witness ==
    /\ lastOp.op = "goPrev" /\ ~isTransitioning /\ N = 3 /\ currentIndex = 1
    /\ cam.target = << "memory", 1, 0 >>

\* C16: skipToEnd outside a transition, from whatever index the journey is at, puts
\* currentIndex at N - 1 and isAutoPlaying at false in the same step, without
\* setting isTransitioning or starting an animation session.
C16_SkipJumpsToLast ==
    [][ (lastOp'.op = "skipToEnd" /\ ~isTransitioning)
          => (/\ currentIndex' = N - 1
              /\ ~isAutoPlaying'
              /\ ~isTransitioning'
              /\ anim'.live = 0 /\ anim'.frames = {} /\ anim'.pauseTimers = {}
              /\ autoTimers' = {}
              /\ UNCHANGED << isStarted, musicEnabled, status >>) ]_vars

C16_Witness ==
    /\ lastOp.op = "skipToEnd" /\ N = 3 /\ currentIndex = 2 /\ segStart = -1
    /\ ~isAutoPlaying /\ ~isTransitioning /\ cam.target = << "memory", 2, 0 >>

\* C17: with zero records the playback stays idle whatever key is pressed: isStarted
\* false, currentIndex -1, isTransitioning false, nothing thrown, and the music is
\* never started.
C17_EmptyTimelineStaysIdle ==
    (N = 0) => (/\ ~isStarted /\ currentIndex = -1 /\ ~isTransitioning
                /\ ~isPlaying /\ status # "crashed"
                /\ autoTimers = {} /\ anim.live = 0)

C17_Witness ==
    N = 0 /\ lastOp.op = "goNext" /\ mapInstance /\ status = "mounted"

C19_ToggleAutoplayOnlyFlips ==
    [][ (lastOp'.op = "toggleAutoplay")
          => (/\ isAutoPlaying' = ~isAutoPlaying
              /\ UNCHANGED << currentIndex, isStarted, isTransitioning, musicEnabled,
                              isPlaying, anim, cam, segTrace, status >>) ]_vars

C19_Witness ==
    /\ lastOp.op = "toggleAutoplay" /\ isAutoPlaying /\ isTransitioning
    /\ anim.frames # {} /\ anim.live # 0 /\ currentIndex = 1

\* C20: in every state where the music button is shown, pressing it twice in a row
\* leaves musicEnabled and isMusicPlaying() as they were before the first press.
C20_DoubleToggleRestores ==
    ControlsShown
        => \A ok1, ok2 \in BOOLEAN :
              LET a == toggleMusicResult(musicEnabled, isPlaying, ok1)
                  b == toggleMusicResult(a.enabled, a.playing, ok2)
              IN  b.enabled = musicEnabled /\ b.playing = isPlaying

\* C21: a session started while an earlier session's teardown is still pending is
\* not harmed by it: a teardown clears no interval but the one of the context it
\* closes, and the playing session keeps its context open and its scheduling
\* interval alive.
C21_RestartKeepsNewSession ==
    /\ (lastOp.op = "teardown") => ~lastOp.stale
    /\ (isPlaying /\ audio.audioCtx # 0)
          => (/\ audio.audioCtx \in audio.open
              /\ \E i \in audio.intervals : i.id = audio.audioCtx)

\* C22: the module holds one session at most, and redundant calls do nothing:
\* isPlaying goes with a context in audioCtx, at most one open context is not
\* fading out, startMusic in a state where a session plays leaves the module as
\* it is (no context, no interval), and stopMusic in a state where none plays
\* leaves it as it is (no teardown set).
C22_RedundantCallsAreNoOps ==
    /\ isPlaying <=> audio.audioCtx # 0
    /\ Cardinality({c \in audio.open : \A t \in audio.teardowns : t.ctx # c}) <= 1
    /\ isPlaying
          => \A ok \in BOOLEAN :
                LET m == startMusic(isPlaying, ok)
                IN  m.playing /\ startMusicState(audio, m.audio) = audio
    /\ ~isPlaying
          => (stopMusic(isPlaying) = isPlaying
                /\ stopMusicRelease(audio, isPlaying) = audio)

C22_Witness ==
    /\ lastOp.op = "exit" /\ audio.created = 1 /\ audio.teardowns = {}
    /\ audio.open = {} /\ audio.intervals = {} /\ ~isPlaying

\* C23: a session is released only after its fade-out: its context is closed and
\* its scheduling interval cleared only by a step that finds the session's teardown
\* timeout at least FADE_OUT old, and every stopped session is eventually left with
\* its context closed and its interval cleared.
C23_FadeBeforeRelease ==
    /\ [][ /\ \A c \in audio.open \ audio'.open :
                 \E t \in audio.teardowns : t.ctx = c /\ t.age >= FADE_OUT
           /\ \A i \in audio.intervals :
                 (\A j \in audio'.intervals : j.id # i.id)
                    => \E t \in audio.teardowns : t.ctx = i.id /\ t.age >= FADE_OUT
         ]_vars
    /\ \A s \in 1 .. MaxAudioSessions :
          (\E t \in audio.teardowns : t.ctx = s)
             ~> (s \notin audio.open /\ \A i \in audio.intervals : i.id # s)

\* C24: once a session is stopped its scheduling interval never again gets past
\* the callback's guard to queue a batch, whatever follows, and the interval is
\* eventually cleared.
C24_StoppedIntervalInert ==
    /\ [](~(lastOp.op = "interval" /\ lastOp.audio = "queued" /\ lastOp.stale))
    /\ \A s \in 1 .. MaxAudioSessions :
          (audio.audioCtx # s /\ \E i \in audio.intervals : i.id = s)
             ~> (\A i \in audio.intervals : i.id # s)

\* C25: when the browser refuses to build the audio context, the handler that
\* called startMusic ends as if the music had started, only without sound:
\* isMusicPlaying() is false, musicEnabled is what the user asked for (true, both
\* for Start and for switching the music on), the journey is started at index 0
\* after Start, and the view stays mounted.
C25_RefusedAudioIsSilent ==
    (lastOp.audio = "refused")
        => (/\ ~isPlaying
            /\ musicEnabled
            /\ (lastOp.op = "start") => (isStarted /\ currentIndex = 0)
            /\ status = "mounted")

\* C26: while a session plays, its scheduling interval queues repetition k for
\* every k >= 1 (here up to MaxReps); each queuing happens before the repetition
\* then playing has ended, and the queued repetition starts exactly where that
\* one ends, one loop duration after its start.
C26_GaplessLoop ==
    /\ [][ (lastOp'.op = "interval" /\ lastOp'.audio = "queued" /\ ~lastOp'.stale)
              => \E i \in audio.intervals :
                    /\ i.id = lastOp'.seg
                    /\ \E j \in audio'.intervals :
                          /\ j.id = i.id
                          /\ j.firedAt < BatchEnd(i.nextStart)
                          /\ j.nextStart = BatchEnd(i.nextStart)
                          /\ j.nextStart = i.nextStart + loopDuration ]_vars
    /\ \A s \in 1 .. MaxAudioSessions : \A k \in 1 .. MaxReps :
          (isPlaying /\ audio.audioCtx = s)
              ~> (\/ audio.audioCtx # s
                  \/ \E i \in audio.intervals :
                        i.id = s /\ i.nextStart >= FIRST_START + k * loopDuration)

\* C27: every time a session's interval queues the next repetition, the
\* repetition then playing ends exactly LOOKAHEAD (2 s) after the moment of the
\* queuing, on the first queuing and on every later one.
C27_LeadIsTwoSeconds ==
    [][ (lastOp'.op = "interval" /\ lastOp'.audio = "queued" /\ ~lastOp'.stale)
          => \E i \in audio.intervals :
                /\ i.id = lastOp'.seg
                /\ \E j \in audio'.intervals :
                      j.id = i.id /\ BatchEnd(i.nextStart) - j.firedAt = LOOKAHEAD ]_vars

\* C28: Escape or a close button works in every state of the mounted view (intro
\* screen, showing, transitioning, paused, empty timeline), and once handleExit
\* has returned isMusicPlaying() is false, no autoplay timeout is pending and
\* onExit() has been called.
C28_ExitAlwaysAvailable ==
    /\ Mounted => ENABLED handleExit
    /\ (lastOp.op = "exit")
          => (/\ ~isPlaying
              /\ audio.audioCtx = 0
              /\ autoTimers = {}
              /\ exited >= 1)

\* Exit taken in the middle of a transition while the music was playing.
C28_Witness ==
    /\ lastOp.op = "exit"
    /\ isTransitioning
    /\ audio.teardowns # {}
    /\ exited = 1

\* C30: sortChronologically returns the records of its input, each exactly once,
\* in non-decreasing order of effective time (the parsed memoryDate, else
\* createdAt), records of equal effective time in their input order; the
\* records dated 2024-01-01, 2024-06-15, 2023-12-25 come out as 2023-12-25,
\* 2024-01-01, 2024-06-15, and the empty list comes out empty.
C30_SortIsStableAscending ==
    (lastOp.op = "sort")
        => (/\ Len(sortedMemories) = Len(memories)
            /\ \E p \in [1 .. Len(memories) -> 1 .. Len(memories)] :
                  /\ \A i, j \in 1 .. Len(memories) : i # j => p[i] # p[j]
                  /\ \A i \in 1 .. Len(memories) : sortedMemories[i] = memories[p[i]]
                  /\ \A i, j \in 1 .. Len(memories) :
                        i < j => (\/ effectiveTime(sortedMemories[i])
                                        < effectiveTime(sortedMemories[j])
                                 \/ /\ effectiveTime(sortedMemories[i])
                                        = effectiveTime(sortedMemories[j])
                                    /\ p[i] < p[j])
            /\ (memories = << RecA, RecB, RecC >>)
                  => (sortedMemories = << RecC, RecA, RecB >>)
            /\ (memories = << >>) => (sortedMemories = << >>))

\* A later record in front of two of equal effective time, one undated, one dated.
C30_Witness ==
    /\ lastOp.op = "sort"
    /\ memories = << RecE, RecD, RecA >>
    /\ sortedMemories = << RecD, RecA, RecE >>

\* C31: sorting a sorted list again returns it unchanged, and the call leaves the
\* array it was given as it was.
C31_SortIdempotentNoMutation ==
    /\ []((lastOp.op = "sort")
            => sortChronologically(sortedMemories) = sortedMemories)
    /\ [][(lastOp'.op = "sort") => memories' = memories]_vars

\* An input in the reverse of its sorted order, still as it was after the sort.
C31_Witness ==
    /\ lastOp.op = "sort"
    /\ memories = << RecB, RecA, RecC >>
    /\ sortedMemories = << RecC, RecA, RecB >>

\* C32: at most one animation session can act at any time: the callbacks still
\* pending while the cancel flag is clear (a 'moveend' listener, a pause timeout,
\* a requested frame) all belong to one session and there is one of them, and
\* when isTransitioning is false there is none and no animating layer is on the
\* map.
C32_OneAnimationSession ==
    LET able == IF anim.cancelRef THEN {} ELSE UsedIds(anim)
        pending == Cardinality(anim.listeners) + Cardinality(anim.pauseTimers)
                     + Cardinality(anim.frames)
    IN  /\ Cardinality(able) <= 1
        /\ ~anim.cancelRef => pending <= 1
        /\ ~isTransitioning => (able = {} /\ ~anim.animLayers)

\* C33: on the intro screen (not started, index -1, not transitioning) the
\* advance keys and the back key change nothing: the state stays Idle, no
\* animation session is started and the view stays mounted.
C33_KeysIgnoredWhenIdle ==
    [][ (/\ Mounted /\ ~isStarted /\ currentIndex = -1 /\ ~isTransitioning
         /\ lastOp'.op \in {"goNext", "goPrev"})
          => (/\ ~isStarted' /\ currentIndex' = -1 /\ ~isTransitioning'
              /\ anim' = anim
              /\ status' = "mounted") ]_vars

\* C34: isStarted holds exactly when currentIndex >= 0, and once the journey is
\* started no step sets isStarted back to false or currentIndex back below 0.
C34_StartedIffIndexSet ==
    /\ [](isStarted <=> currentIndex >= 0)
    /\ [][isStarted => (isStarted' /\ currentIndex' >= 0)]_vars

\* Started, gone forward and back to the first record again.
C34_Witness ==
    /\ isStarted /\ currentIndex = 0 /\ ~isTransitioning
    /\ segStart = 0 /\ lastOp.op = "goPrev"

\* C35: handleTransitionComplete runs only in a state where the journey is
\* started, isTransitioning is true and currentIndex < N - 1 (never on the intro
\* screen, at rest on a record or at the end), so currentIndex never passes
\* N - 1.
C35_CompletionOnlyWhileTransitioning ==
    /\ [][ (lastOp'.op = "complete")
              => (isStarted /\ isTransitioning /\ currentIndex >= 0
                  /\ currentIndex < N - 1) ]_vars
    /\ [](currentIndex <= N - 1)

\* C36: as long as no AudioContext construction is refused, musicEnabled equals
\* isMusicPlaying() in every state of the started, mounted view: Start
\* establishes the equality and every later step (music button, navigation,
\* autoplay, timers, animation) keeps it.
C36_MusicFlagMatchesAudio ==
    [][ (status' = "mounted" /\ lastOp'.audio # "refused")
          => (/\ (lastOp'.op = "start") => (musicEnabled' = isPlaying')
              /\ (isStarted /\ musicEnabled = isPlaying)
                    => (musicEnabled' = isPlaying')) ]_vars

\* Music switched off and on again on the second record.
C36_Witness ==
    /\ lastOp.op = "toggleMusic" /\ lastOp.audio = "started"
    /\ audio.created = 2
    /\ musicEnabled /\ isPlaying
    /\ currentIndex = 1

\* C37: while the journey is started, a map is there and no transition runs, the
\* last command the camera was given aims at the record at currentIndex: a flyTo to that
\* record (Start, goPrev, skip to end), or the setView of an animation's last
\* frame, which lies on the segment's end record.
C37_CameraOnCurrentRecord ==
    LET aimed == IF cam.target[1] = "memory" THEN cam.target[2]
                 ELSE IF cam.target[1] = "tip" /\ cam.target[3] = ANIM_DURATION
                      THEN cam.target[2] + 1
                      ELSE -2
    IN  (Mounted /\ mapInstance /\ isStarted /\ ~isTransitioning)
            => aimed = currentIndex

====
